---------------------------- MODULE Spec2Model ----------------------------
(***************************************************************************)
(* Model of the cache benchmark (benchmark.c): the driver main(), the      *)
(* timed-region harness benchmark_prologue / benchmark_epilogue, the       *)
(* workloads bench1, bench2, bench3 and the helper bytes_to_prefix.        *)
(*                                                                         *)
(* Four specifications share the variables below:                          *)
(*   Spec          the driver main() with every system call able to fail   *)
(*   SpecPrefix    bytes_to_prefix applied to bounded inputs               *)
(*   SpecPrologue  the pre-fault loop of benchmark_prologue, per iteration *)
(*   SpecWork      the loops of bench1, bench2 and bench3, per iteration   *)
(* Variables a specification does not use keep their idle initial value.   *)
(***************************************************************************)
EXTENDS Integers, Sequences, FiniteSets

VARIABLES
    \* ---- main() and the harness (Spec) ----
    pc,         \* position in main(), "idle" outside Spec
    exit_code,  \* -1 while running, 0 after return 0, 1 after die()
    aff_ok,     \* result of sched_setaffinity (the code discards it)
    sched_ok,   \* result of sched_setscheduler
    buf,        \* main's buf: id of the region it points to, 0 before any mmap
    size,       \* main's size
    step,       \* main's step
    start,      \* main's struct timeval start: invocation that stored it
    susage,     \* static struct rusage susage
    eusage,     \* static struct rusage eusage
    kern,       \* the kernel's fault counter read by getrusage
    wfaults,    \* faults taken by the latest workload call
    mapped,     \* ids of the regions currently mapped
    maps,       \* history of successful mmap calls
    unmaps,     \* history of successful munmap calls
    events,     \* history of harness events "begin", "workload", "end"
    out,        \* report lines printed by benchmark_epilogue
    \* ---- bytes_to_prefix (SpecPrefix) ----
    bp_pc, bp_in, bp_s0, bp_bytes, bp_s,
    \* ---- benchmark_prologue loop (SpecPrologue) ----
    pl_pc, pl_size0, pl_page, pl_size, pl_i, pl_written, pl_flushed,
    \* ---- workloads (SpecWork) ----
    w_pc, w_fn, w_buf, w_i, w_i0, w_limit, w_length, w_touched, w_ovf

dvars == <<pc, exit_code, aff_ok, sched_ok, buf, size, step, start, susage,
           eusage, kern, wfaults, mapped, maps, unmaps, events, out>>
bvars == <<bp_pc, bp_in, bp_s0, bp_bytes, bp_s>>
lvars == <<pl_pc, pl_size0, pl_page, pl_size, pl_i, pl_written, pl_flushed>>
wvars == <<w_pc, w_fn, w_buf, w_i, w_i0, w_limit, w_length, w_touched, w_ovf>>
vars  == <<dvars, bvars, lvars, wvars>>

(***************************************************************************)
(* Machine arithmetic.  TLC integers are 32-bit; every value the program   *)
(* compares or prints in the modelled runs is below 2^31.                  *)
(***************************************************************************)
RECURSIVE Pow2(_)
Pow2(k) == IF k = 0 THEN 1 ELSE 2 * Pow2(k - 1)

MaxInt == (Pow2(30) - 1) + Pow2(30)

\* x << 1 on a size_t; a result of 2^31 or more is held as MaxInt (such a
\* value is only ever compared with a smaller loop limit).
Shl1(x) == IF x > MaxInt \div 2 THEN MaxInt ELSE 2 * x

\* a & b on non-negative operands, bit by bit.
RECURSIVE BitAnd(_, _)
BitAnd(a, b) ==
    IF a = 0 \/ b = 0 THEN 0
    ELSE (a % 2) * (b % 2) + 2 * BitAnd(a \div 2, b \div 2)

KILOBYTES(x) == x * 1024
MEGABYTES(x) == x * 1024 * 1024
GIGABYTES(x) == x * 1024 * 1024 * 1024

NULL == "NULL"

(***************************************************************************)
(* bytes_to_prefix(size_t *bytes, char **s)                                *)
(***************************************************************************)
PrefixMask == Pow2(10) - 1

\* one "if (!(b & mask)) { b >>= 10; *s = p; }" statement
PrefixStepNoMinusOne(r, p) ==
    IF BitAnd(r.b, Pow2(10)) = 0 THEN [b |-> r.b \div Pow2(10), s |-> p] ELSE r
PrefixStep(r, p) ==
    IF BitAnd(r.b, PrefixMask) = 0 THEN [b |-> r.b \div Pow2(10), s |-> p] ELSE r

\* the whole function: the new (*bytes, *s)
bytes_to_prefix(bytes, s) ==
    IF s # NULL
    THEN PrefixStep(PrefixStep(PrefixStep([b |-> bytes, s |-> s], "k"), "M"), "G")
    ELSE [b |-> bytes, s |-> s]

\* ---- idle values of the variables a specification does not use ----
IdleDriver ==
    /\ pc = "idle" /\ exit_code = -1 /\ aff_ok = TRUE /\ sched_ok = TRUE
    /\ buf = 0 /\ size = 0 /\ step = 0 /\ start = 0
    /\ susage = [val |-> 0, inv |-> 0] /\ eusage = [val |-> 0, inv |-> 0]
    /\ kern = 0 /\ wfaults = 0 /\ mapped = {} /\ maps = <<>> /\ unmaps = <<>>
    /\ events = <<>> /\ out = <<>>
IdlePrefix ==
    bp_pc = "idle" /\ bp_in = 0 /\ bp_s0 = NULL /\ bp_bytes = 0 /\ bp_s = NULL
IdlePrologue ==
    /\ pl_pc = "idle" /\ pl_size0 = 0 /\ pl_page = 1 /\ pl_size = 0 /\ pl_i = 0
    /\ pl_written = <<>> /\ pl_flushed = <<>>
IdleWork ==
    /\ w_pc = "idle" /\ w_fn = "none" /\ w_buf = <<>> /\ w_i = 0 /\ w_i0 = 0
    /\ w_limit = 0 /\ w_length = 1 /\ w_touched = <<>> /\ w_ovf = FALSE

(***************************************************************************)
(* SpecPrefix: bytes_to_prefix called once on m * 1024^k (m <= MaxMant,    *)
(* k <= 3, below 2^31) or one of the sizes the documentation quotes, with  *)
(* *s either the blank prefix the callers pass or NULL.                    *)
(***************************************************************************)
MaxMant == 12

RECURSIVE Pow1024(_)
Pow1024(k) == IF k = 0 THEN 1 ELSE 1024 * Pow1024(k - 1)

InitPrefix ==
    /\ bp_pc = "call"
    /\ bp_in \in {1000, 1023, 1025, 65536, 1073741824}
                 \cup {m * Pow1024(k) :
                         <<m, k>> \in {q \in (1..MaxMant) \X (0..3) :
                                         q[1] <= MaxInt \div Pow1024(q[2])}}
    /\ bp_s0 \in {" ", NULL}
    /\ bp_bytes = bp_in
    /\ bp_s = bp_s0
    /\ IdleDriver /\ IdlePrologue /\ IdleWork

CallBytesToPrefix ==
    /\ bp_pc = "call"
    /\ LET r == bytes_to_prefix(bp_bytes, bp_s)
       IN  bp_bytes' = r.b /\ bp_s' = r.s
    /\ bp_pc' = "ret"
    /\ UNCHANGED <<bp_in, bp_s0, dvars, lvars, wvars>>

NextPrefix == CallBytesToPrefix

SpecPrefix == InitPrefix /\ [][NextPrefix]_vars

\* the largest k with 1024^k dividing n (n >= 1), by arithmetic division
RECURSIVE Ord1024(_)
Ord1024(n) == IF n % 1024 = 0 THEN 1 + Ord1024(n \div 1024) ELSE 0

Min(a, b) == IF a < b THEN a ELSE b

\* C1: for n >= 1 with a non-null prefix, and k the largest power of 1024
\* dividing n, bytes_to_prefix returns n / 1024^min(k,3) and the prefix
\* unchanged (k = 0), "k" (k = 1), "M" (k = 2) or "G" (k >= 3).
C1_PrefixLargestUnit ==
    (bp_pc = "ret" /\ bp_s0 # NULL /\ bp_in >= 1) =>
        LET k == Min(Ord1024(bp_in), 3)
        IN  /\ bp_bytes = bp_in \div Pow1024(k)
            /\ bp_s = CASE k = 0 -> bp_s0
                        [] k = 1 -> "k"
                        [] k = 2 -> "M"
                        [] k = 3 -> "G"

C1_Witness ==
    /\ bp_pc = "ret" /\ bp_s0 = " "
    /\ bp_in = 1073741824 /\ bp_bytes = 1 /\ bp_s = "G"

(***************************************************************************)
(* SpecPrologue: the pre-fault loop of benchmark_prologue (lines 112-119), *)
(* one action per iteration of the do-while, on a region of pl_size0 bytes *)
(* with page size pl_page.  pl_written and pl_flushed list the byte        *)
(* offsets (relative to buf) stored to and handed to clflush.              *)
(***************************************************************************)
MaxSize == 12
MaxPageShift == 3

\* a cache line is smaller than the smallest page: pages are 2, 4, ... bytes
\* and a line is 2 bytes in the model's units
LineSize == Pow2(1)
LineOf(offset) == offset \div LineSize

\* the argument of the clflush call, as an offset from buf: clflush(buf)
ClflushOffset(i) == 0

\* "i += page_size" of the loop condition
PrologueAdvanceSkips(i, page_size) == i + 2 * page_size
PrologueAdvance(i, page_size) == i + page_size

InitPrologue ==
    /\ pl_pc = "loop"
    /\ pl_size0 \in 1..MaxSize
    /\ pl_page \in {Pow2(k) : k \in 1..MaxPageShift}
    /\ pl_size = pl_size0
    /\ pl_i = 0
    /\ pl_written = <<>>
    /\ pl_flushed = <<>>
    /\ IdleDriver /\ IdlePrefix /\ IdleWork

\* one pass through the body and the loop condition
PrologueIter ==
    /\ pl_pc = "loop"
    /\ pl_written' = Append(pl_written, pl_i)
    /\ pl_flushed' = Append(pl_flushed, ClflushOffset(pl_i))
    /\ IF pl_size < pl_page
       THEN /\ pl_pc' = "snapshot"
            /\ UNCHANGED <<pl_size, pl_i>>
       ELSE /\ pl_size' = pl_size - pl_page
            /\ pl_i' = PrologueAdvance(pl_i, pl_page)
            /\ pl_pc' = IF pl_size' # 0 THEN "loop" ELSE "snapshot"
    /\ UNCHANGED <<pl_size0, pl_page, dvars, bvars, wvars>>

\* the loop is left: getrusage and gettimeofday follow (modelled in Spec)
PrologueLeave ==
    /\ pl_pc = "snapshot"
    /\ pl_pc' = "done"
    /\ UNCHANGED <<pl_size0, pl_page, pl_size, pl_i, pl_written, pl_flushed,
                   dvars, bvars, wvars>>

NextPrologue == PrologueIter \/ PrologueLeave

\* the code is sequential: a step that is enabled is taken
SpecPrologue == InitPrologue /\ [][NextPrologue]_vars /\ WF_vars(NextPrologue)

Range(s) == {s[k] : k \in DOMAIN s}

PageOffsets(sz, page) == {j * page : j \in {x \in 0..sz : x * page < sz}}

\* C7: begin writes only inside the region, and when the loop is left the
\* offsets written are exactly {j*P : 0 <= j*P < size}; the loop is left.
C7_PrologueTouchesEveryPage ==
    /\ [](\A k \in DOMAIN pl_written : pl_written[k] \in 0..(pl_size0 - 1))
    /\ [](pl_pc \in {"snapshot", "done"} =>
            Range(pl_written) = PageOffsets(pl_size0, pl_page))
    /\ <>(pl_pc = "done")

\* a size that is not a multiple of the page: the partial last page is written
C7_Witness ==
    /\ pl_pc = "done" /\ pl_size0 = 11 /\ pl_page = 4
    /\ pl_written = <<0, 4, 8>> /\ pl_size = 3

\* C8: after each touch the cache line invalidated is the one containing
\* the address just touched: the k-th clflush falls in the line of the k-th
\* written offset.
C8_FlushMatchesTouch ==
    /\ Len(pl_flushed) = Len(pl_written)
    /\ \A k \in DOMAIN pl_written : LineOf(pl_flushed[k]) = LineOf(pl_written[k])

(***************************************************************************)
(* SpecWork: the loops of bench1, bench2 and bench3, one action per        *)
(* iteration.  w_buf maps each element index written so far to the number  *)
(* of increments it received (every other element is untouched, 0).        *)
(* bench1 is observed from iteration w_i0 on: from 0, or over the last     *)
(* iterations before the limit main() passes, MEGABYTES(64).               *)
(***************************************************************************)
MaxCount == 4
MaxLenShift == 6

Get(b, o) == IF o \in DOMAIN b THEN b[o] ELSE 0

\* buf[o]++ on a uint32_t.  The counts reached here stay far below 2^32.
Incr(b, o) ==
    [x \in DOMAIN b \cup {o} |-> IF x = o THEN Get(b, x) + 1 ELSE Get(b, x)]

\* i * 16 in int (32-bit two's complement): bit 31 of the product is bit 27
\* of i, the low 31 bits are (i mod 2^27) * 16.
MulInt16(i) ==
    LET low == (i % Pow2(27)) * 16
    IN  IF (i \div Pow2(27)) % 2 = 1 THEN (low - Pow2(30)) - Pow2(30) ELSE low

\* the low 30 bits of (size_t) v; lengthMod is below 2^30 in every run
SizeTLow(v) == v % Pow2(30)

\* size_t lengthMod = length - 1
LengthModNoMinusOne(length) == length
LengthMod(length) == length - 1

\* the index bench1 increments in iteration i
Bench1Index(i, length) == BitAnd(SizeTLow(MulInt16(i)), LengthMod(length))

\* the body of bench2's loop
Bench2BodyOnce(b) == Incr(b, 0)
Bench2Body(b) == Incr(Incr(b, 0), 0)

\* the body of bench3's loop
Bench3Body(b) == Incr(Incr(b, 0), 1)

Bench1Limit == MEGABYTES(64)

InitWork ==
    /\ w_pc = "loop"
    /\ w_fn \in {"bench1", "bench2", "bench3"}
    /\ w_buf = <<>>
    /\ w_touched = <<>>
    /\ w_ovf = FALSE
    /\ \/ /\ w_fn = "bench1"
          /\ w_length \in {Pow2(k) : k \in 0..MaxLenShift} \cup {Pow2(28)}
          /\ \/ w_i0 = 0 /\ w_limit \in 0..MaxCount
             \/ w_i0 = Bench1Limit - MaxCount /\ w_limit = Bench1Limit
       \/ /\ w_fn \in {"bench2", "bench3"}
          /\ w_length = 1
          /\ w_i0 = 0
          /\ w_limit \in 0..MaxCount
    /\ w_i = w_i0
    /\ IdleDriver /\ IdlePrefix /\ IdlePrologue

Bench1Iter ==
    /\ w_pc = "loop" /\ w_fn = "bench1" /\ w_i < w_limit
    /\ LET idx == Bench1Index(w_i, w_length)
       IN  /\ w_buf' = Incr(w_buf, idx)
           /\ w_touched' = Append(w_touched, idx)
    /\ w_ovf' = (w_ovf \/ w_i > MaxInt \div 16)
    /\ w_i' = w_i + 1
    /\ UNCHANGED <<w_pc, w_fn, w_i0, w_limit, w_length, dvars, bvars, lvars>>

Bench2Iter ==
    /\ w_pc = "loop" /\ w_fn = "bench2" /\ w_i < w_limit
    /\ w_buf' = Bench2Body(w_buf)
    /\ w_i' = w_i + 1
    /\ UNCHANGED <<w_pc, w_fn, w_i0, w_limit, w_length, w_touched, w_ovf,
                   dvars, bvars, lvars>>

Bench3Iter ==
    /\ w_pc = "loop" /\ w_fn = "bench3" /\ w_i < w_limit
    /\ w_buf' = Bench3Body(w_buf)
    /\ w_i' = w_i + 1
    /\ UNCHANGED <<w_pc, w_fn, w_i0, w_limit, w_length, w_touched, w_ovf,
                   dvars, bvars, lvars>>

BenchReturn ==
    /\ w_pc = "loop" /\ ~(w_i < w_limit)
    /\ w_pc' = "ret"
    /\ UNCHANGED <<w_fn, w_buf, w_i, w_i0, w_limit, w_length, w_touched,
                   w_ovf, dvars, bvars, lvars>>

NextWork == Bench1Iter \/ Bench2Iter \/ Bench3Iter \/ BenchReturn

SpecWork == InitWork /\ [][NextWork]_vars

\* C5: on return, with count N, bench2 has incremented element 0 exactly 2N
\* times and no other element; bench3 has incremented elements 0 and 1
\* exactly N times each and no other element.
C5_IncrementCounts ==
    (w_pc = "ret" /\ w_fn \in {"bench2", "bench3"}) =>
        /\ w_fn = "bench2" =>
              /\ Get(w_buf, 0) = 2 * w_limit
              /\ DOMAIN w_buf \subseteq {0}
        /\ w_fn = "bench3" =>
              /\ Get(w_buf, 0) = w_limit
              /\ Get(w_buf, 1) = w_limit
              /\ DOMAIN w_buf \subseteq {0, 1}

C5_Witness ==
    /\ w_pc = "ret" /\ w_fn = "bench2" /\ w_limit = 3 /\ Get(w_buf, 0) = 6

\* C6: in bench1 with a power-of-two length L, the element incremented in
\* iteration i is (i*16) mod L, inside [0, L); i*16 never overflows int;
\* each offset's count is the number of iterations i with (i*16) mod L = it.
C6_Bench1Aliasing ==
    w_fn = "bench1" =>
        /\ ~w_ovf
        /\ Len(w_touched) = w_i - w_i0
        /\ \A k \in DOMAIN w_touched :
              /\ w_touched[k] = ((w_i0 + k - 1) * 16) % w_length
              /\ w_touched[k] \in 0..(w_length - 1)
        /\ \A o \in DOMAIN w_buf \cup (0..Min(w_length - 1, 2 * Pow2(MaxLenShift))) :
              Get(w_buf, o) =
                 Cardinality({j \in w_i0..(w_i - 1) : (j * 16) % w_length = o})

\* the last iteration main() asks for, on a 64-element buffer
C6_Witness ==
    /\ w_pc = "ret" /\ w_fn = "bench1" /\ w_length = 64
    /\ w_i = Bench1Limit /\ w_touched[Len(w_touched)] = 48

(***************************************************************************)
(* Spec: main().  Every system call picks its result; die() ends the run   *)
(* with exit code 1.  A region is identified by the number of the mmap     *)
(* call that returned it.  kern is the fault count the kernel keeps for    *)
(* the process: touching pages in the prologue and running a workload may  *)
(* raise it (by at most MaxFaults over a run).  A report line carries what *)
(* printf prints (step, prefix, hf) and, for the properties, the snapshot  *)
(* and invocation it was computed from, the faults of its workload, and    *)
(* the region and size main() held.                                        *)
(***************************************************************************)
MaxFaults == 1
getpagesize == 4096

Invocation(ev) == Cardinality({k \in DOMAIN ev : ev[k] = "begin"})

\* die(): perror, exit(1)
Die ==
    /\ pc' = "exit"
    /\ exit_code' = 1

\* getrusage(RUSAGE_SELF, &susage) in benchmark_prologue: the new susage
PrologueSnapshotOnce(old, k, inv) ==
    IF old.inv = 0 THEN [val |-> k, inv |-> inv] ELSE old
PrologueSnapshot(old, k, inv) == [val |-> k, inv |-> inv]

\* buf = mmap(NULL, sz, ...); if (buf == MAP_FAILED) die("mmap()");
DoMmap(sz, next) ==
    \E ok \in BOOLEAN :
        /\ size' = sz
        /\ IF ok
           THEN /\ buf' = Len(maps) + 1
                /\ maps' = Append(maps, [id |-> Len(maps) + 1, size |-> sz,
                                          at |-> Len(out)])
                /\ mapped' = mapped \cup {Len(maps) + 1}
                /\ pc' = next
                /\ UNCHANGED exit_code
           ELSE /\ buf' = -1
                /\ Die
                /\ UNCHANGED <<maps, mapped>>

\* if (munmap(buf, size) == -1) die("munmap()");
DoMunmap(next) ==
    \E ok \in BOOLEAN :
        IF ok
        THEN /\ mapped' = mapped \ {buf}
             /\ unmaps' = Append(unmaps, [id |-> buf, size |-> size,
                                           at |-> Len(out)])
             /\ pc' = next
             /\ UNCHANGED exit_code
        ELSE /\ Die
             /\ UNCHANGED <<mapped, unmaps>>

\* benchmark_prologue(&start, buf, size): the pre-fault loop (SpecPrologue
\* models it per iteration), then getrusage and gettimeofday
DoPrologue(next) ==
    \E g \in 0..Min(1, MaxFaults - kern), ru_ok \in BOOLEAN, tod_ok \in BOOLEAN :
        /\ kern' = kern + g
        /\ events' = Append(events, "begin")
        /\ IF ~ru_ok
           THEN Die /\ UNCHANGED <<susage, start>>
           ELSE /\ susage' = PrologueSnapshot(susage, kern', Invocation(events'))
                /\ IF ~tod_ok
                   THEN Die /\ UNCHANGED start
                   ELSE /\ start' = Invocation(events')
                        /\ pc' = next
                        /\ UNCHANGED exit_code

\* a workload call: bench, bench1, bench2 or bench3 (SpecWork models the
\* loops); it may fault
DoBench(next) ==
    \E f \in 0..Min(1, MaxFaults - kern) :
        /\ kern' = kern + f
        /\ wfaults' = f
        /\ events' = Append(events, "workload")
        /\ pc' = next

\* benchmark_epilogue(&start, label): timediff, getrusage, bytes_to_prefix,
\* printf
DoEpilogue(ex, label, next) ==
    \E tod_ok \in BOOLEAN, ru_ok \in BOOLEAN :
        /\ events' = Append(events, "end")
        /\ IF ~tod_ok
           THEN Die /\ UNCHANGED <<eusage, out>>
           ELSE IF ~ru_ok
           THEN Die /\ UNCHANGED <<eusage, out>>
           ELSE /\ eusage' = [val |-> kern, inv |-> Invocation(events)]
                /\ LET r == bytes_to_prefix(label, " ")
                   IN  out' = Append(out,
                          [ex |-> ex, raw |-> label, step |-> r.b, prefix |-> r.s,
                           hf |-> eusage'.val - susage.val,
                           snap |-> susage.inv, timer |-> start,
                           inv |-> Invocation(events),
                           wf |-> wfaults,
                           region |-> buf, rsize |-> size])
                /\ pc' = next
                /\ UNCHANGED exit_code

Init ==
    /\ pc = "setaffinity" /\ exit_code = -1 /\ aff_ok = TRUE /\ sched_ok = TRUE
    /\ buf = 0 /\ size = 0 /\ step = 0 /\ start = 0
    /\ susage = [val |-> 0, inv |-> 0] /\ eusage = [val |-> 0, inv |-> 0]
    /\ kern = 0 /\ wfaults = 0 /\ mapped = {} /\ maps = <<>> /\ unmaps = <<>>
    /\ events = <<>> /\ out = <<>>
    /\ IdlePrefix /\ IdlePrologue /\ IdleWork

\* line 213: the result of sched_setaffinity is not looked at
SetAffinity ==
    /\ pc = "setaffinity"
    /\ \E ok \in BOOLEAN : aff_ok' = ok
    /\ pc' = "setscheduler"
    /\ UNCHANGED <<exit_code, sched_ok, buf, size, step, start, susage, eusage,
                   kern, wfaults, mapped, maps, unmaps, events, out,
                   bvars, lvars, wvars>>

\* lines 218-220
SetScheduler ==
    /\ pc = "setscheduler"
    /\ \E ok \in BOOLEAN :
          /\ sched_ok' = ok
          /\ IF ok THEN pc' = "ex2_mmap" /\ UNCHANGED exit_code ELSE Die
    /\ UNCHANGED <<aff_ok, buf, size, step, start, susage, eusage,
                   kern, wfaults, mapped, maps, unmaps, events, out,
                   bvars, lvars, wvars>>

\* ---- Example 2: lines 224-234 ----
\* lines 224-228: mmap of 64 MiB, then "step = 1; step <= 4096"
Ex2Mmap ==
    /\ pc = "ex2_mmap"
    /\ DoMmap(MEGABYTES(64), IF 1 <= 4096 THEN "ex2_prologue" ELSE "ex2_munmap")
    /\ step' = 1
    /\ UNCHANGED <<aff_ok, sched_ok, start, susage, eusage, kern, wfaults,
                   unmaps, events, out, bvars, lvars, wvars>>

Ex2Prologue ==
    /\ pc = "ex2_prologue"
    /\ DoPrologue("ex2_bench")
    /\ UNCHANGED <<aff_ok, sched_ok, buf, size, step, eusage, wfaults, mapped,
                   maps, unmaps, out, bvars, lvars, wvars>>

Ex2Bench ==
    /\ pc = "ex2_bench"
    /\ DoBench("ex2_epilogue")
    /\ UNCHANGED <<exit_code, aff_ok, sched_ok, buf, size, step, start, susage,
                   eusage, mapped, maps, unmaps, out, bvars, lvars, wvars>>

\* the stride sweep's limit: "step <= 4096"
Ex2ContinueStrict(s) == s < 4096
Ex2Continue(s) == s <= 4096

\* line 231 and the loop's "step <<= 1; step <= 4096"
Ex2Epilogue ==
    /\ pc = "ex2_epilogue"
    /\ DoEpilogue(2, step,
                  IF Ex2Continue(Shl1(step)) THEN "ex2_prologue" ELSE "ex2_munmap")
    /\ step' = IF pc' = "exit" THEN step ELSE Shl1(step)
    /\ UNCHANGED <<aff_ok, sched_ok, buf, size, start, susage, kern, wfaults,
                   mapped, maps, unmaps, bvars, lvars, wvars>>

\* lines 233-238: munmap, then "step = KILOBYTES(1); step <= GIGABYTES(1)"
Ex2Munmap ==
    /\ pc = "ex2_munmap"
    /\ DoMunmap(IF KILOBYTES(1) <= GIGABYTES(1) THEN "ex3_mmap" ELSE "ex4_mmap")
    /\ step' = IF pc' = "exit" THEN step ELSE KILOBYTES(1)
    /\ UNCHANGED <<aff_ok, sched_ok, buf, size, start, susage, eusage, kern,
                   wfaults, maps, events, out, bvars, lvars, wvars>>

\* ---- Example 3: lines 238-251 ----
\* length = step >> (ffs(sizeof(uint32_t)) - 1)
Ex3Length(s) == s \div Pow2(2)

\* size = length * sizeof(uint32_t)
Ex3Size(s) == Ex3Length(s) * 4

Ex3Mmap ==
    /\ pc = "ex3_mmap"
    /\ DoMmap(Ex3Size(step), "ex3_prologue")
    /\ UNCHANGED <<aff_ok, sched_ok, step, start, susage, eusage, kern, wfaults,
                   unmaps, events, out, bvars, lvars, wvars>>

Ex3Prologue ==
    /\ pc = "ex3_prologue"
    /\ DoPrologue("ex3_bench1")
    /\ UNCHANGED <<aff_ok, sched_ok, buf, size, step, eusage, wfaults, mapped,
                   maps, unmaps, out, bvars, lvars, wvars>>

Ex3Bench1 ==
    /\ pc = "ex3_bench1"
    /\ DoBench("ex3_epilogue")
    /\ UNCHANGED <<exit_code, aff_ok, sched_ok, buf, size, step, start, susage,
                   eusage, mapped, maps, unmaps, out, bvars, lvars, wvars>>

Ex3Epilogue ==
    /\ pc = "ex3_epilogue"
    /\ DoEpilogue(3, step, "ex3_munmap")
    /\ UNCHANGED <<aff_ok, sched_ok, buf, size, step, start, susage, kern,
                   wfaults, mapped, maps, unmaps, bvars, lvars, wvars>>

\* lines 249-250 and the loop's "step <<= 1; step <= GIGABYTES(1)"
\* a munmap that is left out
Ex3ReleaseSkipped(next) == pc' = next /\ UNCHANGED <<exit_code, mapped, unmaps>>
Ex3Release(next) == DoMunmap(next)

Ex3Munmap ==
    /\ pc = "ex3_munmap"
    /\ Ex3Release(IF Shl1(step) <= GIGABYTES(1) THEN "ex3_mmap" ELSE "ex4_mmap")
    /\ step' = IF pc' = "exit" THEN step ELSE Shl1(step)
    /\ UNCHANGED <<aff_ok, sched_ok, buf, size, start, susage, eusage, kern,
                   wfaults, maps, events, out, bvars, lvars, wvars>>

\* ---- Example 4: lines 255-267 ----
Ex4Mmap ==
    /\ pc = "ex4_mmap"
    /\ DoMmap(getpagesize, "ex4_prologue2")
    /\ UNCHANGED <<aff_ok, sched_ok, step, start, susage, eusage, kern, wfaults,
                   unmaps, events, out, bvars, lvars, wvars>>

Ex4Prologue2 ==
    /\ pc = "ex4_prologue2"
    /\ DoPrologue("ex4_bench2")
    /\ UNCHANGED <<aff_ok, sched_ok, buf, size, step, eusage, wfaults, mapped,
                   maps, unmaps, out, bvars, lvars, wvars>>

Ex4Bench2 ==
    /\ pc = "ex4_bench2"
    /\ DoBench("ex4_epilogue2")
    /\ UNCHANGED <<exit_code, aff_ok, sched_ok, buf, size, step, start, susage,
                   eusage, mapped, maps, unmaps, out, bvars, lvars, wvars>>

Ex4Epilogue2 ==
    /\ pc = "ex4_epilogue2"
    /\ DoEpilogue(4, 1, "ex4_prologue3")
    /\ UNCHANGED <<aff_ok, sched_ok, buf, size, step, start, susage, kern,
                   wfaults, mapped, maps, unmaps, bvars, lvars, wvars>>

Ex4Prologue3 ==
    /\ pc = "ex4_prologue3"
    /\ DoPrologue("ex4_bench3")
    /\ UNCHANGED <<aff_ok, sched_ok, buf, size, step, eusage, wfaults, mapped,
                   maps, unmaps, out, bvars, lvars, wvars>>

Ex4Bench3 ==
    /\ pc = "ex4_bench3"
    /\ DoBench("ex4_epilogue3")
    /\ UNCHANGED <<exit_code, aff_ok, sched_ok, buf, size, step, start, susage,
                   eusage, mapped, maps, unmaps, out, bvars, lvars, wvars>>

Ex4Epilogue3 ==
    /\ pc = "ex4_epilogue3"
    /\ DoEpilogue(4, 2, "ex4_munmap")
    /\ UNCHANGED <<aff_ok, sched_ok, buf, size, step, start, susage, kern,
                   wfaults, mapped, maps, unmaps, bvars, lvars, wvars>>

\* lines 265-267: munmap, return 0
Ex4Munmap ==
    /\ pc = "ex4_munmap"
    /\ \E ok \in BOOLEAN :
          IF ok
          THEN /\ mapped' = mapped \ {buf}
               /\ unmaps' = Append(unmaps, [id |-> buf, size |-> size,
                                             at |-> Len(out)])
               /\ pc' = "exit"
               /\ exit_code' = 0
          ELSE Die /\ UNCHANGED <<mapped, unmaps>>
    /\ UNCHANGED <<aff_ok, sched_ok, buf, size, step, start, susage, eusage,
                   kern, wfaults, maps, events, out, bvars, lvars, wvars>>

Next ==
    \/ SetAffinity \/ SetScheduler
    \/ Ex2Mmap \/ Ex2Prologue \/ Ex2Bench \/ Ex2Epilogue \/ Ex2Munmap
    \/ Ex3Mmap \/ Ex3Prologue \/ Ex3Bench1 \/ Ex3Epilogue \/ Ex3Munmap
    \/ Ex4Mmap \/ Ex4Prologue2 \/ Ex4Bench2 \/ Ex4Epilogue2
    \/ Ex4Prologue3 \/ Ex4Bench3 \/ Ex4Epilogue3 \/ Ex4Munmap

Spec == Init /\ [][Next]_vars

(***************************************************************************)
(* Properties of main()                                                    *)
(***************************************************************************)
MapsAt(k) == {m \in DOMAIN maps : maps[m].at = k}
UnmapsAt(k) == {u \in DOMAIN unmaps : unmaps[u].at = k}
UnmapsOf(r) == {u \in DOMAIN unmaps : unmaps[u].id = r}
ReportsOf(e) == {k \in DOMAIN out : out[k].ex = e}
MinOf(S) == CHOOSE x \in S : \A y \in S : x <= y
MaxOf(S) == CHOOSE x \in S : \A y \in S : x >= y

\* C2: every mapped region is unmapped exactly once on every exit path,
\* die() included: no run reaches process exit with a region still mapped.
C2_NoRegionMappedAtExit ==
    /\ pc = "exit" => mapped = {}
    /\ \A m \in DOMAIN maps : Cardinality(UnmapsOf(maps[m].id)) <= 1

C4_SetupFailureAborts ==
    (~aff_ok \/ ~sched_ok) =>
        /\ maps = <<>> /\ events = <<>> /\ out = <<>>
        /\ pc = "exit" => exit_code = 1

\* C9: the harness events are begin, workload, end repeated, and each
\* report line's deltas are computed against the snapshot (and timer) stored
\* by the begin of the same invocation: the fault delta printed is the
\* number of faults of that invocation's workload.
C9_MatchedPair ==
    /\ \A k \in DOMAIN events :
          events[k] = <<"begin", "workload", "end">>[((k - 1) % 3) + 1]
    /\ \A k \in DOMAIN out :
          /\ out[k].inv = k
          /\ out[k].snap = out[k].inv
          /\ out[k].timer = out[k].inv
          /\ out[k].hf = out[k].wf

\* the second report counts a fault of the second workload
C9_Witness ==
    /\ Len(out) >= 2 /\ out[2].wf = 1 /\ out[2].hf = 1 /\ out[2].snap = 2

Steps(e) == SelectSeq(out, LAMBDA r : r.ex = e)

\* C10: the stride sweep reports steps 1, 2, 4, ..., 4096 (13 steps) on one
\* 64 MiB region; the working-set sweep reports 1 KiB, 2 KiB, ..., 1 GiB
\* (21 steps), each on a region mapped for that iteration whose size is the
\* step; both sweeps end (a run that returns 0 has printed all of them).
C10_SweepSequences ==
    LET s2 == Steps(2)
        s3 == Steps(3)
    IN  /\ Len(s2) <= 13 /\ Len(s3) <= 21
        /\ \A k \in DOMAIN s2 :
              /\ s2[k].raw = Pow2(k - 1)
              /\ s2[k].region = s2[1].region
              /\ s2[k].rsize = MEGABYTES(64)
              /\ maps[s2[k].region].size = MEGABYTES(64)
        /\ \A k \in DOMAIN s3 :
              /\ s3[k].raw = KILOBYTES(1) * Pow2(k - 1)
              /\ s3[k].rsize = s3[k].raw
              /\ maps[s3[k].region].size = s3[k].raw
              /\ maps[s3[k].region].at = Len(s2) + k - 1
              /\ \A j \in DOMAIN s3 : j # k => s3[j].region # s3[k].region
        /\ s3 # <<>> => Len(s2) = 13
        /\ (pc \in {"ex4_mmap", "ex4_prologue2"} \/ exit_code = 0) =>
              Len(s2) = 13 /\ Len(s3) = 21

C10_Witness ==
    /\ pc = "exit" /\ exit_code = 0 /\ Len(out) = 36
    /\ out[13].raw = 4096 /\ out[34].raw = GIGABYTES(1)
    /\ out[34].step = 1 /\ out[34].prefix = "G"

=============================================================================
